---- MODULE Spec2Model ----
(***************************************************************************)
(* A model of src/clean_data.py: the batch cleaning pipeline main() that   *)
(* runs load_data, clean_strings, optimize_types,                          *)
(* validate_financial_integrity, generate_quality_summary and save_output  *)
(* over one pandas DataFrame.                                              *)
(*                                                                         *)
(* Representation.                                                         *)
(*  - a text value is the tuple of its characters (<<"M","a","l","e">>),   *)
(*    so that trimming and exact-match replacement are computed;           *)
(*  - a numeric cell is <<v>> (v an integer number of cents) or <<>> for   *)
(*    NaN; decimal arithmetic is exact (binary rounding is not modelled);  *)
(*  - a DataFrame is [n |-> row count, cols |-> name :> [dtype, vals,      *)
(*    cats]]; a DataFrame object lives in the heap and is named by its     *)
(*    index there, since Python passes and returns references.             *)
(***************************************************************************)
EXTENDS Integers, Sequences, FiniteSets, TLC

VARIABLES
    pc,              \* the statement of main() (or of save_output) to run next
    fileExists,      \* environment: os.path.exists(INPUT_CSV)
    csv,             \* environment: the table pd.read_csv yields for the file
                     \* (for a stage called on its own: the table passed)
    heap,            \* the DataFrame objects created so far
    df,              \* main's local df: an index into heap, 0 while unbound
    quality_report,  \* main's local quality_report: <<>> or <<summary>>
    out,             \* the lines printed so far
    exc,             \* the exception in flight or caught: <<>> or <<e>>
    disk,            \* the output files: each <<>> (not written) or <<content>>
    started          \* history: the stages main has called, in order

vars == <<pc, fileExists, csv, heap, df, quality_report, out, exc, disk, started>>

----------------------------------------------------------------------------
(* Bounds of the model *)

\* the longest input table, in rows
MaxRows == 2
\* the widest whitespace padding put around a label
MaxPad == 1

----------------------------------------------------------------------------
(* Text *)

Male == <<"M", "a", "l", "e">>
Female == <<"F", "e", "m", "a", "l", "e">>
Member == <<"M", "e", "m", "b", "e", "r">>
Normal == <<"N", "o", "r", "m", "a", "l">>
LabelM == <<"M">>
LabelF == <<"F">>
LabelN == <<"N">>
Other == <<"O", "t", "h", "e", "r">>
\* a label with whitespace inside it, which trimming must keep
MaleInner == <<"M", "a", " ", "l", "e">>

Whitespace == {" ", "\t", "\n"}

\* str.strip(): the text without its leading and trailing whitespace
RECURSIVE LStrip(_)
LStrip(s) ==
    IF s # <<>> /\ Head(s) \in Whitespace THEN LStrip(Tail(s)) ELSE s

RECURSIVE RStrip(_)
RStrip(s) ==
    IF s # <<>> /\ s[Len(s)] \in Whitespace
    THEN RStrip(SubSeq(s, 1, Len(s) - 1))
    ELSE s

Strip(s) == RStrip(LStrip(s))

\* Series.replace(mapping) on one value: an exact match is replaced, any
\* other value passes through
GenderMap == [from |-> <<Male, Female>>, to |-> <<LabelM, LabelF>>]
CustomerTypeMap == [from |-> <<Member, Normal>>, to |-> <<LabelM, LabelN>>]

ReplaceValueWrong(v, m) ==
    IF v = m.from[1] THEN m.to[1] ELSE v

ReplaceValue(v, m) ==
    IF \E i \in 1..Len(m.from) : v = m.from[i]
    THEN m.to[CHOOSE i \in 1..Len(m.from) : v = m.from[i]]
    ELSE v

----------------------------------------------------------------------------
(* Timestamps: pd.to_datetime(text, format="%m/%d/%Y %I:%M:%S %p") *)

Digits == <<"0", "1", "2", "3", "4", "5", "6", "7", "8", "9">>

IsDigit(c) == \E i \in 1..Len(Digits) : Digits[i] = c

DigitVal(c) == (CHOOSE i \in 1..Len(Digits) : Digits[i] = c) - 1

IsNumber(f) == f # <<>> /\ \A i \in 1..Len(f) : IsDigit(f[i])

RECURSIVE NumVal(_)
NumVal(f) ==
    IF f = <<>> THEN 0
    ELSE 10 * NumVal(SubSeq(f, 1, Len(f) - 1)) + DigitVal(f[Len(f)])

\* the fields of s between occurrences of the delimiter d
RECURSIVE Split(_, _)
Split(s, d) ==
    IF \A i \in 1..Len(s) : s[i] # d THEN <<s>>
    ELSE LET i == CHOOSE k \in 1..Len(s) :
                      s[k] = d /\ \A j \in 1..(k - 1) : s[j] # d
         IN  <<SubSeq(s, 1, i - 1)>> \o Split(SubSeq(s, i + 1, Len(s)), d)

IsLeap(y) == (y % 4 = 0 /\ y % 100 # 0) \/ y % 400 = 0

DaysInMonth(y, m) ==
    IF m = 2 THEN (IF IsLeap(y) THEN 29 ELSE 28)
    ELSE IF m \in {4, 6, 9, 11} THEN 30 ELSE 31

Meridiems == {<<"A", "M">>, <<"P", "M">>, <<"a", "m">>, <<"p", "m">>}

IsPM(p) == p \in {<<"P", "M">>, <<"p", "m">>}

\* a one- or two-digit field of the format (%m %d %I %M %S)
IsShortNumber(f) == IsNumber(f) /\ Len(f) <= 2

\* <<timestamp>> when the text matches the format, <<>> when it does not
\* (the format's blank is matched here by exactly one blank)
ParseDateTime(text) ==
    LET parts == Split(text, " ")
    IN  IF Len(parts) # 3 THEN <<>>
        ELSE
        LET d == Split(parts[1], "/")
            t == Split(parts[2], ":")
        IN  IF \/ Len(d) # 3 \/ Len(t) # 3
               \/ ~ (IsShortNumber(d[1]) /\ IsShortNumber(d[2]))
               \/ ~ (IsNumber(d[3]) /\ Len(d[3]) = 4)
               \/ ~ (\A i \in 1..3 : IsShortNumber(t[i]))
               \/ parts[3] \notin Meridiems
            THEN <<>>
            ELSE
            LET mo == NumVal(d[1])
                dy == NumVal(d[2])
                yr == NumVal(d[3])
                hr == NumVal(t[1])
                mi == NumVal(t[2])
                se == NumVal(t[3])
            IN  IF /\ mo \in 1..12
                   /\ yr >= 1
                   /\ dy \in 1..DaysInMonth(yr, mo)
                   /\ hr \in 1..12
                   /\ mi \in 0..59
                   /\ se \in 0..59
                THEN <<[year |-> yr, month |-> mo, day |-> dy,
                        hour |-> (hr % 12) + (IF IsPM(parts[3]) THEN 12 ELSE 0),
                        minute |-> mi, second |-> se]>>
                ELSE <<>>

----------------------------------------------------------------------------
(* DataFrames *)

Columns(t) == DOMAIN t.cols

NoCats == {}

Column(dtype, vals) == [dtype |-> dtype, vals |-> vals, cats |-> NoCats]

\* df[c] = column: the column is replaced, or added when there is none
SetColumn(t, c, column) ==
    [t EXCEPT !.cols = [k \in (DOMAIN t.cols) \cup {c} |->
                            IF k = c THEN column ELSE t.cols[k]]]

\* df.drop(columns=cs): a new table without the columns cs
DropColumnsWrong(t, cs) ==
    [n |-> t.n, cols |-> [k \in (DOMAIN t.cols) \ (cs \cup {"Full_Date"}) |-> t.cols[k]]]

DropColumns(t, cs) ==
    [n |-> t.n, cols |-> [k \in (DOMAIN t.cols) \ cs |-> t.cols[k]]]

Range(s) == {s[i] : i \in DOMAIN s}

----------------------------------------------------------------------------
(* clean_strings: the statements *)

\* lines 27-30: every column of dtype object has each value trimmed
StripObjectColumns(t) ==
    [t EXCEPT !.cols = [c \in DOMAIN t.cols |->
        IF t.cols[c].dtype = "object"
        THEN [t.cols[c] EXCEPT !.vals = [i \in DOMAIN @ |-> Strip(@[i])]]
        ELSE t.cols[c]]]

\* lines 33-34: df[c] = df[c].replace(m); text is compared with text only
ReplaceColumn(t, c, m) ==
    IF t.cols[c].dtype = "object"
    THEN [t EXCEPT !.cols[c].vals = [i \in DOMAIN @ |-> ReplaceValue(@[i], m)]]
    ELSE t

----------------------------------------------------------------------------
(* optimize_types: the statements *)

to_category ==
    <<"Branch", "City", "Customer type", "Gender", "Product line", "Payment">>

\* line 47: df[col] = df[col].astype("category"), the distinct values being
\* the categories
AsCategory(t, c) ==
    [t EXCEPT !.cols[c] = [dtype |-> "category", vals |-> @.vals,
                           cats |-> Range(@.vals)]]

\* the index in cs of the first column the table lacks, 0 when it has all
FirstMissing(t, cs) ==
    IF \A i \in 1..Len(cs) : cs[i] \in Columns(t) THEN 0
    ELSE CHOOSE i \in 1..Len(cs) :
            cs[i] \notin Columns(t) /\ \A j \in 1..(i - 1) : cs[j] \in Columns(t)

\* lines 46-47: the loop, run over the first k columns of to_category
RECURSIVE ConvertCategories(_, _)
ConvertCategories(t, k) ==
    IF k = 0 THEN t
    ELSE AsCategory(ConvertCategories(t, k - 1), to_category[k])

\* line 56: df["Date"] + " " + df["Time"], row by row
DateTimeText(t) ==
    [i \in 1..t.n |-> t.cols["Date"].vals[i] \o <<" ">> \o t.cols["Time"].vals[i]]

\* line 56: pd.to_datetime raises when some row does not match the format
AllParse(t) == \A i \in 1..t.n : ParseDateTime(DateTimeText(t)[i]) # <<>>

FullDateColumn(t) ==
    Column("datetime64", [i \in 1..t.n |-> ParseDateTime(DateTimeText(t)[i])])

----------------------------------------------------------------------------
(* validate_financial_integrity: the statements *)

\* atol=0.01 of line 69, in cents
AtolCents == 1
\* 1 / rtol, for the rtol=1e-05 that np.allclose and np.isclose default to
RtolInverse == 100000

NaN == <<>>

Abs(x) == IF x < 0 THEN -x ELSE x

\* float addition: NaN when either operand is NaN
Add(a, b) == IF a = NaN \/ b = NaN THEN NaN ELSE <<a[1] + b[1]>>

\* line 67: expected_sales = df['cogs'] + df['Tax 5%']
ExpectedSales(t) ==
    [i \in 1..t.n |-> Add(t.cols["cogs"].vals[i], t.cols["Tax 5%"].vals[i])]

IsCloseAbsolute(a, b) ==
    /\ a # NaN
    /\ b # NaN
    /\ Abs(a[1] - b[1]) <= AtolCents

\* np.isclose(a, b, atol=0.01): |a - b| <= atol + rtol * |b|, and NaN is close
\* to nothing. With a, b and atol whole numbers of cents, this is
\* |a - b| - atol <= floor(|b| * rtol).
IsClose(a, b) ==
    /\ a # NaN
    /\ b # NaN
    /\ Abs(a[1] - b[1]) - AtolCents <= Abs(b[1]) \div RtolInverse

\* line 69: np.allclose(df['Sales'], expected_sales, atol=0.01)
AllClose(t) ==
    \A i \in 1..t.n : IsClose(t.cols["Sales"].vals[i], ExpectedSales(t)[i])

\* line 75: the rows of df that are not close
Discrepancies(t) ==
    {i \in 1..t.n : ~ IsClose(t.cols["Sales"].vals[i], ExpectedSales(t)[i])}

----------------------------------------------------------------------------
(* generate_quality_summary: the statements *)

\* round(2) of num/den hundredths (den > 0): to the nearest whole, a tie
\* going to the even neighbour, as numpy rounds
RoundHalfEven(num, den) ==
    LET q == num \div den
        r == num - q * den
    IN  IF 2 * r < den THEN q
        ELSE IF 2 * r > den THEN q + 1
        ELSE IF q % 2 = 0 THEN q ELSE q + 1

\* the values of a column that are not null (only a numeric cell can be)
IsNull(col, i) == col.dtype \in {"number", "datetime64"} /\ col.vals[i] = NaN

NonNullRows(col) == {i \in DOMAIN col.vals : ~ IsNull(col, i)}

\* line 87: df.count()
NonNullCount(col) == Cardinality(NonNullRows(col))

\* line 88: (df.isna().mean() * 100).round(2), in hundredths of a percent;
\* the mean over no rows is NaN
MissingPct(col, n) ==
    IF n = 0 THEN NaN
    ELSE <<RoundHalfEven((n - NonNullCount(col)) * 10000, n)>>

NUniqueWrong(col) == NonNullCount(col)

\* line 89: df.nunique(), nulls left out
NUnique(col) == Cardinality({col.vals[i] : i \in NonNullRows(col)})

\* line 90: (df == 0).sum(); only a number equals 0
ZeroCount(col) ==
    IF col.dtype = "number"
    THEN Cardinality({i \in NonNullRows(col) : col.vals[i][1] = 0})
    ELSE 0

\* line 91: the count of negatives of a numeric column; the other columns
\* are not in the selection and get NaN when the frame is assembled
Negatives(col) ==
    IF col.dtype = "number"
    THEN <<Cardinality({i \in NonNullRows(col) : col.vals[i][1] < 0})>>
    ELSE NaN

RECURSIVE SumOver(_, _)
SumOver(col, rows) ==
    IF rows = {} THEN 0
    ELSE LET i == CHOOSE k \in rows : TRUE
         IN  col.vals[i][1] + SumOver(col, rows \ {i})

\* line 95: which columns df.describe() describes. With datetimeIsNumeric
\* (pandas 2) a datetime64 column is described beside the numeric ones; when
\* no column qualifies, describe() describes all of them, without min, mean, max
Described(t, datetimeIsNumeric) ==
    {c \in Columns(t) :
        \/ t.cols[c].dtype = "number"
        \/ datetimeIsNumeric /\ t.cols[c].dtype = "datetime64"}

\* line 95: .round(2) rounds a numeric frame; the transposed description of a
\* frame that mixes numbers and timestamps is of dtype object and is left as is
Rounds(t, datetimeIsNumeric) ==
    \A c \in Described(t, datetimeIsNumeric) : t.cols[c].dtype = "number"

\* a statistic of a datetime64 column, a timestamp whose value is not modelled
TimestampStat == <<"timestamp">>

\* the mean as a fraction of cents, num/den
Fraction(num, den) == <<[num |-> num, den |-> den]>>

DescribeMin(col) ==
    IF col.dtype = "datetime64" THEN TimestampStat
    ELSE IF NonNullRows(col) = {} THEN NaN
    ELSE <<CHOOSE v \in {col.vals[i][1] : i \in NonNullRows(col)} :
             \A i \in NonNullRows(col) : v <= col.vals[i][1]>>

DescribeMax(col) ==
    IF col.dtype = "datetime64" THEN TimestampStat
    ELSE IF NonNullRows(col) = {} THEN NaN
    ELSE <<CHOOSE v \in {col.vals[i][1] : i \in NonNullRows(col)} :
             \A i \in NonNullRows(col) : v >= col.vals[i][1]>>

DescribeMean(col, rounds) ==
    IF col.dtype = "datetime64" THEN TimestampStat
    ELSE IF NonNullRows(col) = {} THEN NaN
    ELSE LET total == SumOver(col, NonNullRows(col))
             k == NonNullCount(col)
         IN  IF rounds THEN Fraction(RoundHalfEven(total, k), 1)
             ELSE Fraction(total, k)

\* lines 84-96: one row of the summary
SummaryRow(t, c, datetimeIsNumeric) ==
    LET col == t.cols[c]
        described == c \in Described(t, datetimeIsNumeric)
    IN  [Dtype |-> col.dtype,
         TotalRows |-> t.n,
         NonNullCount |-> NonNullCount(col),
         MissingPct |-> MissingPct(col, t.n),
         UniqueValues |-> NUnique(col),
         ZeroValues |-> ZeroCount(col),
         Negatives |-> Negatives(col),
         min |-> IF described THEN DescribeMin(col) ELSE NaN,
         mean |-> IF described
                  THEN DescribeMean(col, Rounds(t, datetimeIsNumeric))
                  ELSE NaN,
         max |-> IF described THEN DescribeMax(col) ELSE NaN]

\* lines 84-98: the summary, one row per column of df, labelled by its name
Summary(t, datetimeIsNumeric) ==
    [c \in Columns(t) |-> SummaryRow(t, c, datetimeIsNumeric)]

\* line 95: describe() raises on a frame without columns, and the selection
\* of min, mean and max raises when describe() produced none of them
SummaryFails(t, datetimeIsNumeric) == Described(t, datetimeIsNumeric) = {}

----------------------------------------------------------------------------
(* The input file: the tables pd.read_csv can yield *)

\* section 6 of the specification: the columns main() needs
Required ==
    {"Branch", "City", "Customer type", "Gender", "Product line", "Payment",
     "Date", "Time", "cogs", "Tax 5%", "Sales"}

NumericColumns == {"cogs", "Tax 5%", "Sales"}

\* a column the file may hold beside the required ones
Extras == {"Full_Date"}

DtypeOf(c) == IF c \in NumericColumns THEN "number" ELSE "object"

Date_01_05_2021 == <<"0", "1", "/", "0", "5", "/", "2", "0", "2", "1">>
Date_2_29_2020_padded == <<" ", "2", "/", "2", "9", "/", "2", "0", "2", "0">>
Date_13_40_2021 == <<"1", "3", "/", "4", "0", "/", "2", "0", "2", "1">>
Time_12_30_45_PM == <<"1", "2", ":", "3", "0", ":", "4", "5", " ", "P", "M">>
Time_1_05_09_am == <<"1", ":", "0", "5", ":", "0", "9", " ", "a", "m">>
Time_99_99_99_XM == <<"9", "9", ":", "9", "9", ":", "9", "9", " ", "X", "M">>

Row(gender, ctype, date, time, cogs, tax, sales, text) ==
    [c \in Required \cup Extras |->
        CASE c = "Gender" -> gender
          [] c = "Customer type" -> ctype
          [] c = "Date" -> date
          [] c = "Time" -> time
          [] c = "cogs" -> cogs
          [] c = "Tax 5%" -> tax
          [] c = "Sales" -> sales
          [] OTHER -> text]

\* the rows the input tables are made of: a consistent row; a padded row
\* whose Sales is off by 0.02; a row with an unparseable date and large
\* amounts off by 0.02; a row without Sales
RowKinds ==
    {Row(Male, Member, Date_01_05_2021, Time_12_30_45_PM,
         <<1000>>, <<50>>, <<1050>>, <<"A">>),
     Row(<<" ">> \o Female, Normal \o <<" ">>, Date_2_29_2020_padded,
         Time_1_05_09_am, <<1000>>, <<50>>, <<1052>>, <<" ", "B", "\t">>),
     Row(Other, Male, Date_13_40_2021, Time_99_99_99_XM,
         <<10000000>>, <<500000>>, <<10500002>>, <<"C">>),
     Row(LabelF, LabelN, Date_01_05_2021, Time_1_05_09_am,
         <<2000>>, <<100>>, NaN, <<"A">>)}

MakeTable(rows, cs) ==
    [n |-> Len(rows),
     cols |-> [c \in cs |->
                  Column(DtypeOf(c), [i \in 1..Len(rows) |-> rows[i][c]])]]

RowSeqs == UNION {[1..k -> RowKinds] : k \in 1..MaxRows}

\* all required columns, or all but one, with or without the extra column
ColumnSets ==
    {(Required \ miss) \cup extra :
        miss \in {{}} \cup {{c} : c \in Required}, extra \in SUBSET Extras}

InputTables == {MakeTable(rows, cs) : rows \in RowSeqs, cs \in ColumnSets}

NoTable == [n |-> 0, cols |-> <<>>]

----------------------------------------------------------------------------
(* Printed lines, exceptions, files *)

Line(tag, n) == [tag |-> tag, n |-> n, e |-> <<>>]

Exception(type, arg) == [type |-> type, arg |-> arg]

\* the built-in exception classes that derive from Exception
ExceptionSubclasses ==
    {"FileNotFoundError", "KeyError", "ValueError", "OSError", "TypeError"}

\* line 137: except Exception as e
CatchesKeyErrorOnly(e) == e.type = "KeyError"

Catches(e) == e.type \in ExceptionSubclasses

NotWritten == <<>>

INPUT_CSV == "SuperMarketAnalysis.csv"
OUTPUT_BASE == "SupermarketSales_Cleaned"

----------------------------------------------------------------------------
(* The pipeline: main() and the stages it calls *)

Init ==
    /\ pc = "load_data"
    /\ fileExists \in BOOLEAN
    /\ csv \in (IF fileExists THEN InputTables ELSE {NoTable})
    /\ heap = <<>>
    /\ df = 0
    /\ quality_report = <<>>
    /\ out = <<>>
    /\ exc = <<>>
    /\ disk = [xlsx |-> NotWritten, parquet |-> NotWritten]
    /\ started = <<>>

\* lines 128-135: the stages in the order main calls them, then the two
\* writes and the closing lines of save_output
Order ==
    <<"load_data", "clean_strings", "optimize_types",
      "validate_financial_integrity", "generate_quality_summary",
      "save_output", "to_parquet", "print_completed">>

IndexOf(stage) == CHOOSE i \in 1..Len(Order) : Order[i] = stage

\* the statement that follows a stage that returned
AfterSkippingClean(stage) ==
    IF stage = "load_data" THEN "optimize_types"
    ELSE IF stage = "print_completed" THEN "return"
    ELSE Order[IndexOf(stage) + 1]

After(stage) ==
    IF stage = "print_completed" THEN "return" ELSE Order[IndexOf(stage) + 1]

\* a raise inside the try block of main: control goes to the except clause
Raise(type, arg) ==
    /\ pc' = "except"
    /\ exc' = <<Exception(type, arg)>>

\* lines 5-18, called at line 128. raw_data and its deep copy are two objects
load_data ==
    /\ pc = "load_data"
    /\ started' = Append(started, "load_data")
    /\ IF ~ fileExists
       THEN /\ Raise("FileNotFoundError", INPUT_CSV)
            /\ UNCHANGED <<heap, df, out>>
       ELSE /\ heap' = heap \o <<csv, csv>>
            /\ df' = Len(heap) + 2
            /\ out' = out \o <<Line("loading", 0), Line("shape", csv.n)>>
            /\ pc' = After("load_data")
            /\ UNCHANGED exc
    /\ UNCHANGED <<fileExists, csv, quality_report, disk>>

\* line 36: return df, the object that was passed in
clean_strings_result_copy(h, ref) == [heap |-> Append(h, h[ref]), ref |-> Len(h) + 1]

clean_strings_result(h, ref) == [heap |-> h, ref |-> ref]

\* lines 20-36, called at line 129: the table is modified where it is
clean_strings ==
    /\ pc = "clean_strings"
    /\ started' = Append(started, "clean_strings")
    /\ out' = Append(out, Line("standardizing", 0))
    /\ LET t1 == StripObjectColumns(heap[df])
       IN  IF "Gender" \notin Columns(t1)
           THEN /\ heap' = [heap EXCEPT ![df] = t1]
                /\ Raise("KeyError", "Gender")
                /\ UNCHANGED df
           ELSE
           LET t2 == ReplaceColumn(t1, "Gender", GenderMap)
           IN  IF "Customer type" \notin Columns(t2)
               THEN /\ heap' = [heap EXCEPT ![df] = t2]
                    /\ Raise("KeyError", "Customer type")
                    /\ UNCHANGED df
               ELSE
               LET t3 == ReplaceColumn(t2, "Customer type", CustomerTypeMap)
                   r == clean_strings_result([heap EXCEPT ![df] = t3], df)
               IN  /\ heap' = r.heap
                   /\ df' = r.ref
                   /\ pc' = After("clean_strings")
                   /\ UNCHANGED exc
    /\ UNCHANGED <<fileExists, csv, quality_report, disk>>

\* lines 38-59, called at line 130: the categories and Full_Date are set on
\* the table passed in; drop() then makes the table that is returned
optimize_types ==
    /\ pc = "optimize_types"
    /\ started' = Append(started, "optimize_types")
    /\ out' = Append(out, Line("optimizing", 0))
    /\ LET miss == FirstMissing(heap[df], to_category)
       IN  IF miss # 0
           THEN /\ heap' = [heap EXCEPT ![df] = ConvertCategories(@, miss - 1)]
                /\ Raise("KeyError", to_category[miss])
                /\ UNCHANGED df
           ELSE
           LET t1 == ConvertCategories(heap[df], Len(to_category))
               missDT == FirstMissing(t1, <<"Date", "Time">>)
           IN  IF missDT # 0
               THEN /\ heap' = [heap EXCEPT ![df] = t1]
                    /\ Raise("KeyError", <<"Date", "Time">>[missDT])
                    /\ UNCHANGED df
               ELSE IF ~ AllParse(t1)
               THEN /\ heap' = [heap EXCEPT ![df] = t1]
                    /\ Raise("ValueError", "Full_Date")
                    /\ UNCHANGED df
               ELSE
               LET t2 == SetColumn(t1, "Full_Date", FullDateColumn(t1))
               IN  /\ heap' = Append([heap EXCEPT ![df] = t2],
                                     DropColumns(t2, {"Date", "Time"}))
                   /\ df' = Len(heap) + 1
                   /\ pc' = After("optimize_types")
                   /\ UNCHANGED exc
    /\ UNCHANGED <<fileExists, csv, quality_report, disk>>

\* line 78: return df, with every row
validate_result_filtered(t) ==
    LET keep == {i \in 1..t.n : i \notin Discrepancies(t)}
        pos(k) == CHOOSE i \in keep : Cardinality({j \in keep : j <= i}) = k
    IN  [n |-> Cardinality(keep),
         cols |-> [c \in DOMAIN t.cols |->
            [t.cols[c] EXCEPT !.vals = [k \in 1..Cardinality(keep) |-> @[pos(k)]]]]]

validate_result(t) == t

\* lines 71-76: the line printed for the table
IntegrityLine(t) ==
    IF AllClose(t) THEN Line("success", 0)
    ELSE Line("warning", Cardinality(Discrepancies(t)))

\* lines 61-78, called at line 131
validate_financial_integrity ==
    /\ pc = "validate_financial_integrity"
    /\ started' = Append(started, "validate_financial_integrity")
    /\ LET miss == FirstMissing(heap[df], <<"cogs", "Tax 5%", "Sales">>)
       IN  IF miss # 0
           THEN /\ out' = Append(out, Line("verifying", 0))
                /\ Raise("KeyError", <<"cogs", "Tax 5%", "Sales">>[miss])
                /\ UNCHANGED heap
           ELSE /\ out' = out \o <<Line("verifying", 0), IntegrityLine(heap[df])>>
                /\ heap' = [heap EXCEPT ![df] = validate_result(@)]
                /\ pc' = After("validate_financial_integrity")
                /\ UNCHANGED exc
    /\ UNCHANGED <<fileExists, csv, df, quality_report, disk>>

\* lines 80-98, called at line 134; which columns describe() covers depends
\* on the pandas in use
generate_quality_summary ==
    /\ pc = "generate_quality_summary"
    /\ started' = Append(started, "generate_quality_summary")
    /\ \E datetimeIsNumeric \in BOOLEAN :
         IF SummaryFails(heap[df], datetimeIsNumeric)
         THEN /\ Raise("KeyError", "min")
              /\ UNCHANGED quality_report
         ELSE /\ quality_report' = <<Summary(heap[df], datetimeIsNumeric)>>
              /\ pc' = After("generate_quality_summary")
              /\ UNCHANGED exc
    /\ UNCHANGED <<fileExists, csv, heap, df, out, disk>>

\* what a finished write leaves in a file, and what a failed one may leave
FileContentConsistentRows(t, report) ==
    [data |-> validate_result_filtered(t), report |-> report, complete |-> TRUE]

FileContent(t, report) == [data |-> t, report |-> report, complete |-> TRUE]

Truncated == [data |-> NoTable, report |-> <<>>, complete |-> FALSE]

\* a write that fails leaves the file as it was or leaves a truncated file
AfterFailedWrite(file) == {file, <<Truncated>>}

\* lines 106-109 of save_output, called at line 135: the Excel workbook with
\* its two sheets; the environment decides whether the write succeeds
save_output ==
    /\ pc = "save_output"
    /\ started' = Append(started, "save_output")
    /\ \E ok \in BOOLEAN :
         IF ok
         THEN /\ disk' = [disk EXCEPT
                    !.xlsx = <<FileContent(heap[df], quality_report)>>]
              /\ pc' = After("save_output")
              /\ UNCHANGED exc
         ELSE /\ \E left \in AfterFailedWrite(disk.xlsx) :
                    disk' = [disk EXCEPT !.xlsx = left]
              /\ Raise("OSError", "xlsx")
    /\ UNCHANGED <<fileExists, csv, heap, df, quality_report, out>>

\* lines 112-113: a failed df.to_parquet leaves the workbook as it is
DiskAfterParquetFailureCleanup(d, left) ==
    [d EXCEPT !.parquet = left, !.xlsx = NotWritten]

DiskAfterParquetFailure(d, left) == [d EXCEPT !.parquet = left]

\* lines 112-113 of save_output
to_parquet ==
    /\ pc = "to_parquet"
    /\ started' = Append(started, "to_parquet")
    /\ \E ok \in BOOLEAN :
         IF ok
         THEN /\ disk' = [disk EXCEPT
                    !.parquet = <<FileContent(heap[df], <<>>)>>]
              /\ pc' = After("to_parquet")
              /\ UNCHANGED exc
         ELSE /\ \E left \in AfterFailedWrite(disk.parquet) :
                    disk' = DiskAfterParquetFailure(disk, left)
              /\ Raise("OSError", "parquet")
    /\ UNCHANGED <<fileExists, csv, heap, df, quality_report, out>>

\* lines 115-116 of save_output, after which main returns
print_completed ==
    /\ pc = "print_completed"
    /\ out' = out \o <<Line("completed", 0), Line("files", 0)>>
    /\ pc' = After("print_completed")
    /\ UNCHANGED <<fileExists, csv, heap, df, quality_report, exc, disk, started>>

\* lines 137-138: the except clause of main. An exception it catches is
\* printed and dropped; one it does not catch leaves main
main_except ==
    /\ pc = "except"
    /\ IF Catches(exc[1])
       THEN /\ out' = Append(out, [tag |-> "failure", n |-> 0, e |-> exc])
            /\ exc' = <<>>
            /\ pc' = "return"
       ELSE /\ pc' = "propagated"
            /\ UNCHANGED <<out, exc>>
    /\ UNCHANGED <<fileExists, csv, heap, df, quality_report, disk, started>>

Next ==
    \/ load_data
    \/ clean_strings
    \/ optimize_types
    \/ validate_financial_integrity
    \/ generate_quality_summary
    \/ save_output
    \/ to_parquet
    \/ print_completed
    \/ main_except

Spec == Init /\ [][Next]_vars

----------------------------------------------------------------------------
(* Properties of the pipeline, checked under Spec *)

HasLine(tag) == \E i \in 1..Len(out) : out[i].tag = tag

CountLines(tag) == Cardinality({i \in 1..Len(out) : out[i].tag = tag})

\* the exception named by the failure line main printed, if it printed one
FailureOf(type, arg) ==
    \E i \in 1..Len(out) :
        out[i].tag = "failure" /\ out[i].e = <<Exception(type, arg)>>

\* C1: from load_data on, the table main holds has as many rows as the table
\* load_data returned, in every column, whatever the rows hold; clean_strings,
\* optimize_types and validate_financial_integrity add and remove no row.
C1_RowCountPreserved ==
    df # 0 =>
        /\ heap[df].n = csv.n
        /\ \A c \in Columns(heap[df]) : Len(heap[df].cols[c].vals) = csv.n

\* the validator has returned a table of several rows, some discrepant
C1_Witness ==
    /\ pc = "generate_quality_summary"
    /\ HasLine("warning")
    /\ heap[df].n >= 2

\* C3: whichever stage raises, main's except clause catches the error once,
\* prints one failure line naming it, and main returns with no error in
\* flight; no error leaves main.
C3_ErrorsCaughtOnce ==
    /\ pc # "propagated"
    /\ CountLines("failure") <= 1
    /\ pc = "except" => exc # <<>> /\ ~ HasLine("failure")
    /\ pc \notin {"except", "return"} => exc = <<>> /\ ~ HasLine("failure")
    /\ pc = "return" =>
        /\ exc = <<>>
        /\ ~ HasLine("completed") =>
              /\ CountLines("failure") = 1
              /\ out[Len(out)].tag = "failure"
              /\ out[Len(out)].e # <<>>

\* main has returned after an unparseable date made optimize_types raise
C3_Witness ==
    /\ pc = "return"
    /\ FailureOf("ValueError", "Full_Date")
    /\ CountLines("failure") = 1

\* C4: on a table with discrepant rows validate_financial_integrity raises
\* nothing and returns the table it was given, unchanged; the summary is then
\* generated, and each output file that is written holds that table.
C4_ReportingOnly ==
    [][/\ (/\ pc = "validate_financial_integrity"
           /\ {"cogs", "Tax 5%", "Sales"} \subseteq Columns(heap[df])
           /\ Discrepancies(heap[df]) # {})
          => /\ heap' = heap
             /\ df' = df
             /\ exc' = <<>>
             /\ pc' = "generate_quality_summary"
             /\ out'[Len(out')] =
                    Line("warning", Cardinality(Discrepancies(heap[df])))
       /\ pc = "generate_quality_summary"
          => /\ pc' = "save_output"
             /\ quality_report' # <<>>
             /\ UNCHANGED <<heap, df>>
       /\ (pc = "save_output" /\ pc' = "to_parquet")
          => /\ disk'.xlsx # NotWritten
             /\ disk'.xlsx[1].complete
             /\ disk'.xlsx[1].data = heap[df]
             /\ disk'.xlsx[1].report = quality_report
             /\ UNCHANGED <<heap, df>>
       /\ (pc = "to_parquet" /\ pc' = "print_completed")
          => /\ disk'.parquet # NotWritten
             /\ disk'.parquet[1].complete
             /\ disk'.parquet[1].data = heap[df]
             /\ UNCHANGED <<heap, df>>
      ]_vars

\* main has completed and both files hold a table with a discrepant row
C4_Witness ==
    /\ pc = "return"
    /\ HasLine("warning")
    /\ HasLine("completed")
    /\ disk.xlsx # NotWritten
    /\ disk.parquet # NotWritten
    /\ Discrepancies(disk.xlsx[1].data) # {}
    /\ Discrepancies(disk.parquet[1].data) # {}

\* a step of optimize_types that returns
OptimizeReturns ==
    pc = "optimize_types" /\ pc' = "validate_financial_integrity"

\* C6 as stated: the table optimize_types returns has neither Date nor Time,
\* has Full_Date, keeps every other column and has exactly one column fewer
\* than the table passed in.
C6_Original ==
    [][OptimizeReturns =>
        /\ "Date" \notin Columns(heap'[df'])
        /\ "Time" \notin Columns(heap'[df'])
        /\ "Full_Date" \in Columns(heap'[df'])
        /\ Columns(heap[df]) \ {"Date", "Time"} \subseteq Columns(heap'[df'])
        /\ Cardinality(Columns(heap'[df'])) = Cardinality(Columns(heap[df])) - 1
      ]_vars

\* C6 amended: the table optimize_types returns has neither Date nor Time,
\* has the one timestamp column Full_Date, and keeps every other column; it
\* has one column fewer than the table passed in when that table had no
\* Full_Date column, and two fewer when it had one (which is overwritten).
C6_ColumnSet ==
    [][OptimizeReturns =>
        /\ Columns(heap'[df']) =
              (Columns(heap[df]) \ {"Date", "Time"}) \cup {"Full_Date"}
        /\ {c \in Columns(heap'[df']) : heap'[df'].cols[c].dtype = "datetime64"}
              = {"Full_Date"}
        /\ Cardinality(Columns(heap'[df'])) =
              IF "Full_Date" \in Columns(heap[df])
              THEN Cardinality(Columns(heap[df])) - 2
              ELSE Cardinality(Columns(heap[df])) - 1
      ]_vars

\* optimize_types has returned for an input file that had a Full_Date column
C6_Witness ==
    /\ pc = "validate_financial_integrity"
    /\ "Full_Date" \in Columns(csv)
    /\ heap[df].cols["Full_Date"].dtype = "datetime64"
    /\ Cardinality(Columns(heap[df])) = Cardinality(Columns(csv)) - 2

\* the parquet write failed: its error is in flight or was printed
ParquetFailed ==
    \/ exc = <<Exception("OSError", "parquet")>>
    \/ FailureOf("OSError", "parquet")

XlsxFailed ==
    \/ exc = <<Exception("OSError", "xlsx")>>
    \/ FailureOf("OSError", "xlsx")

XlsxComplete == disk.xlsx # NotWritten /\ disk.xlsx[1].complete

\* C7: save_output writes the workbook before the parquet file: the parquet
\* write is attempted only once the workbook is complete. When the parquet
\* write fails the workbook stays on disk, no completion line is printed and
\* the error reaches main; when the workbook write fails the parquet write
\* is never attempted.
C7_NotAtomic ==
    /\ (\E i \in 1..Len(started) : started[i] = "to_parquet") => XlsxComplete
    /\ disk.parquet # NotWritten => XlsxComplete
    /\ ParquetFailed =>
        /\ XlsxComplete
        /\ disk.xlsx[1].data = heap[df]
        /\ ~ HasLine("completed")
        /\ pc \in {"except", "return"}
        /\ pc = "return" => FailureOf("OSError", "parquet")
    /\ XlsxFailed =>
        /\ \A i \in 1..Len(started) : started[i] # "to_parquet"
        /\ disk.parquet = NotWritten
        /\ ~ HasLine("completed")

\* main has returned after a failed parquet write, the workbook on disk
C7_Witness ==
    /\ pc = "return"
    /\ FailureOf("OSError", "parquet")
    /\ XlsxComplete
    /\ disk.parquet = NotWritten

\* a step of one of the three stages that take and return a table
StageStep(stage) == pc = stage /\ pc' # pc

\* C9 as stated: clean_strings, optimize_types and
\* validate_financial_integrity leave the table they were passed unchanged,
\* also when they fail, and a stage that returns returns a new table.
C9_Original ==
    [][\A stage \in {"clean_strings", "optimize_types",
                     "validate_financial_integrity"} :
          StageStep(stage) =>
            /\ heap'[df] = heap[df]
            /\ pc' # "except" => df' # df
      ]_vars

\* C9 amended: validate_financial_integrity leaves the table it was passed
\* unchanged and returns that same table, not a new one. clean_strings
\* modifies the table it was passed where it is (a caller holding it sees
\* the trimmed and mapped values) and returns that same table. optimize_types
\* sets the category types and Full_Date on the table it was passed (the
\* category types also when it then fails on a date) and returns a new table,
\* without Date and Time. No stage touches any other table, such as raw_data.
C9_InPlace ==
    [][/\ StageStep("validate_financial_integrity") =>
            heap' = heap /\ df' = df
       /\ StageStep("clean_strings") =>
            /\ Len(heap') = Len(heap)
            /\ df' = df
            /\ \A i \in 1..Len(heap) : i # df => heap'[i] = heap[i]
            /\ heap'[df].cols =
                  [c \in Columns(heap[df]) |->
                      [heap[df].cols[c] EXCEPT !.vals = heap'[df].cols[c].vals]]
            /\ (/\ pc' # "except"
                /\ \E i \in 1..heap[df].n :
                      heap[df].cols["Gender"].vals[i] \in {Male, Female})
               => heap'[df] # heap[df]
       /\ StageStep("optimize_types") =>
            /\ \A i \in 1..Len(heap) : i # df => heap'[i] = heap[i]
            /\ pc' = "except" => Len(heap') = Len(heap) /\ df' = df
            /\ (pc' = "except" /\ exc' = <<Exception("ValueError", "Full_Date")>>)
               => \A c \in Range(to_category) :
                      heap'[df].cols[c].dtype = "category"
            /\ pc' # "except" =>
                /\ Len(heap') = Len(heap) + 1
                /\ df' = Len(heap) + 1
                /\ {"Date", "Time", "Full_Date"} \subseteq Columns(heap'[df])
                /\ \A c \in Range(to_category) :
                      heap'[df].cols[c].dtype = "category"
                /\ heap'[df] # heap[df]
                /\ heap'[df'] = DropColumns(heap'[df], {"Date", "Time"})
      ]_vars

\* the three stages have returned: the table load_data returned (object 2)
\* no longer equals raw_data (object 1), of which it was a copy, and
\* optimize_types returned a third table
C9_Witness ==
    /\ pc = "generate_quality_summary"
    /\ Len(heap) = 3
    /\ df = 3
    /\ heap[1] = csv
    /\ heap[2] # heap[1]
    /\ {"Date", "Time", "Full_Date"} \subseteq Columns(heap[2])

IsPrefix(s, t) == Len(s) <= Len(t) /\ \A i \in 1..Len(s) : s[i] = t[i]

Failed == exc # <<>> \/ HasLine("failure")

C10_State ==
    /\ IsPrefix(started, Order)
    /\ pc \in Range(Order) \ {"print_completed"} =>
        /\ ~ Failed
        /\ started = SubSeq(Order, 1, IndexOf(pc) - 1)
    /\ disk # [xlsx |-> NotWritten, parquet |-> NotWritten] =>
        /\ IsPrefix(SubSeq(Order, 1, 6), started)
        /\ df # 0
        /\ quality_report # <<>>
    /\ ~ (HasLine("completed") /\ Failed)
    /\ pc \in {"return", "propagated"} =>
        (HasLine("completed") \/ HasLine("failure"))
    /\ CountLines("completed") <= 1
    /\ CountLines("failure") <= 1

\* C10: the calls main has made are always a prefix, without repetition, of
\* load_data, clean_strings, optimize_types, validate_financial_integrity,
\* generate_quality_summary, save_output (workbook, then parquet); a stage is
\* entered only with all earlier ones done and no error raised; once an error
\* is raised no further stage is called and no file is touched; a file exists
\* only if the five stages before save_output returned; and a finished run
\* has printed the completion line or the failure line, never both.
C10_StageOrder ==
    [][/\ C10_State'
       /\ Failed => (started' = started /\ disk' = disk /\ heap' = heap)
      ]_vars

\* a run that failed in the fourth stage has ended: four calls were made
C10_Witness ==
    /\ pc = "return"
    /\ started = SubSeq(Order, 1, 4)
    /\ HasLine("failure")
    /\ ~ HasLine("completed")
    /\ disk = [xlsx |-> NotWritten, parquet |-> NotWritten]

----------------------------------------------------------------------------
(* A stage called on its own, on a table of the caller's choosing. csv then *)
(* records the table as it was when the stage was called.                   *)

\* the control state of a call of one stage on the table t
CalledOn(stage, t) ==
    /\ pc = stage
    /\ fileExists = TRUE
    /\ csv = t
    /\ heap = <<t>>
    /\ df = 1
    /\ quality_report = <<>>
    /\ out = <<>>
    /\ exc = <<>>
    /\ disk = [xlsx |-> NotWritten, parquet |-> NotWritten]
    /\ started = SubSeq(Order, 1, IndexOf(stage) - 1)

PadChars == {" ", "\t"}

\* the runs of whitespace put before and after a label
Pads == UNION {[1..k -> PadChars] : k \in 0..MaxPad}

Padded(cores) == {l \o core \o r : l \in Pads, core \in cores, r \in Pads}

GenderInputs == Padded({Male, Female, LabelM, Other, MaleInner, <<>>})

CustomerTypeInputs == Padded({Member, Normal, Male, LabelN})

\* one-row tables of text: Gender and Customer type, padded or not
LabelTables ==
    {[n |-> 1,
      cols |-> [c \in {"Gender", "Customer type"} |->
                   Column("object",
                          <<IF c = "Gender" THEN g ELSE k>>)]] :
        g \in GenderInputs, k \in CustomerTypeInputs}

InitClean == \E t \in LabelTables : CalledOn("clean_strings", t)

SpecClean == InitClean /\ [][clean_strings]_vars

\* the amounts the money tables are made of, in cents
MoneyRows ==
    {<<c, x, s>> :
        c \in {<<1000>>, <<10000000>>, NaN},
        x \in {<<50>>, <<500000>>},
        s \in {<<1050>>, <<1051>>, <<1052>>, <<10500000>>, <<10500002>>,
               <<10500200>>, NaN}}

MoneyTable(rows) ==
    [n |-> Len(rows),
     cols |-> [c \in NumericColumns |->
                  Column("number",
                         [i \in 1..Len(rows) |->
                             rows[i][IF c = "cogs" THEN 1
                                     ELSE IF c = "Tax 5%" THEN 2 ELSE 3]])]]

MoneyTables ==
    {MoneyTable(rows) : rows \in UNION {[1..k -> MoneyRows] : k \in 0..MaxRows}}

InitValidate ==
    \E t \in MoneyTables : CalledOn("validate_financial_integrity", t)

SpecValidate == InitValidate /\ [][validate_financial_integrity]_vars

\* the longest table summarised
MaxSummaryRows == 5

\* the numbers of the summarised column, in hundredths: 0, 5, -3, and null
RatingValues == {<<0>>, <<500>>, <<-300>>, NaN}

SummaryColumnSets == {{"Rating"}, {"Rating", "City", "Gender"}, {"City", "Gender"}}

\* a numeric column Rating, a text column City and a categorical Gender
RatingTable(vals, cs) ==
    [n |-> Len(vals),
     cols |-> [c \in cs |->
        CASE c = "Rating" -> Column("number", vals)
          [] c = "City" ->
                Column("object",
                       [i \in 1..Len(vals) |->
                           IF i % 2 = 1 THEN <<"A">> ELSE <<"B">>])
          [] OTHER ->
                [dtype |-> "category",
                 vals |-> [i \in 1..Len(vals) |-> LabelM],
                 cats |-> IF Len(vals) = 0 THEN {} ELSE {LabelM}]]]

RatingTables ==
    {RatingTable(vals, cs) :
        vals \in UNION {[1..k -> RatingValues] : k \in 0..MaxSummaryRows},
        cs \in SummaryColumnSets}

InitSummary ==
    \E t \in RatingTables : CalledOn("generate_quality_summary", t)

SpecSummary == InitSummary /\ [][generate_quality_summary]_vars

----------------------------------------------------------------------------
(* Properties of single stages *)

\* the amounts of row i of the table the validator was called with
SalesOf(i) == csv.cols["Sales"].vals[i]
CogsOf(i) == csv.cols["cogs"].vals[i]
TaxOf(i) == csv.cols["Tax 5%"].vals[i]

HasNaN(i) == SalesOf(i) = NaN \/ CogsOf(i) = NaN \/ TaxOf(i) = NaN

\* |Sales - (cogs + Tax 5%)| of a row without NaN, in cents
Difference(i) == Abs(SalesOf(i)[1] - (CogsOf(i)[1] + TaxOf(i)[1]))

\* the rows with |Sales - (cogs + Tax 5%)| > 0.01
BeyondAbsolute == {i \in 1..csv.n : ~ HasNaN(i) /\ Difference(i) > 1}

\* the rows with a missing amount, or with
\* |Sales - (cogs + Tax 5%)| > 0.01 + 0.00001 * |cogs + Tax 5%|
\* (a whole number of cents exceeds a bound iff it exceeds the bound's floor)
BeyondTolerance ==
    {i \in 1..csv.n :
        \/ HasNaN(i)
        \/ Difference(i) > 1 + (Abs(CogsOf(i)[1] + TaxOf(i)[1]) \div 100000)}

ValidatorReturned == pc = "generate_quality_summary"

\* the validator printed its step line and then the verdict for the rows in d
Reported(d) ==
    /\ Len(out) = 2
    /\ out[1] = Line("verifying", 0)
    /\ out[2] = IF d = {} THEN Line("success", 0)
                ELSE Line("warning", Cardinality(d))

\* C2 as stated: the validator prints the success line exactly when no row
\* has |Sales - (cogs + Tax 5%)| > 0.01, and otherwise warns with the number
\* of such rows.
C2_Original == ValidatorReturned => Reported(BeyondAbsolute)

\* C2 amended: a row is discrepant iff one of its three amounts is missing or
\* |Sales - (cogs + Tax 5%)| > 0.01 + 0.00001 * |cogs + Tax 5%|, a tolerance
\* that grows with the expected total; the validator prints the success line
\* exactly when no row is discrepant, and otherwise warns with the number of
\* discrepant rows.
C2_Tolerance == ValidatorReturned => Reported(BeyondTolerance)

\* the validator warned of one row for cogs=10.00, tax=0.50, Sales=10.52
\* followed by cogs=100000.00, tax=5000.00, Sales=105000.02
C2_Witness ==
    /\ ValidatorReturned
    /\ csv.n = 2
    /\ <<CogsOf(1), TaxOf(1), SalesOf(1)>> = <<<<1000>>, <<50>>, <<1052>>>>
    /\ <<CogsOf(2), TaxOf(2), SalesOf(2)>> =
          <<<<10000000>>, <<500000>>, <<10500002>>>>
    /\ out[Len(out)] = Line("warning", 1)

\* s is x without its leading and trailing whitespace
IsTrimOf(s, x) ==
    \E a, b \in 0..Len(x) :
        /\ a + b <= Len(x)
        /\ s = SubSeq(x, a + 1, Len(x) - b)
        /\ \A i \in 1..a : x[i] \in Whitespace
        /\ \A i \in (Len(x) - b + 1)..Len(x) : x[i] \in Whitespace
        /\ s # <<>> => s[1] \notin Whitespace /\ s[Len(s)] \notin Whitespace

\* the normalized value of the input x under the two-entry lookup
IsLabelOf(v, x, from1, to1, from2, to2) ==
    \E s \in {SubSeq(x, a, b) : a \in 1..(Len(x) + 1), b \in 0..Len(x)} :
        /\ IsTrimOf(s, x)
        /\ v = IF s = from1 THEN to1 ELSE IF s = from2 THEN to2 ELSE s

\* C5: when clean_strings returns, each Gender value is M for a trimmed input
\* Male, F for Female and the trimmed input otherwise, each Customer type
\* value is M for a trimmed input Member, N for Normal and the trimmed input
\* otherwise; so no Gender is Male or Female and no Customer type is Member or
\* Normal, padded inputs included.
C5_Labels ==
    pc = "optimize_types" =>
        \A i \in 1..csv.n :
            /\ IsLabelOf(heap[df].cols["Gender"].vals[i],
                         csv.cols["Gender"].vals[i],
                         Male, LabelM, Female, LabelF)
            /\ IsLabelOf(heap[df].cols["Customer type"].vals[i],
                         csv.cols["Customer type"].vals[i],
                         Member, LabelM, Normal, LabelN)
            /\ heap[df].cols["Gender"].vals[i] \notin {Male, Female}
            /\ heap[df].cols["Customer type"].vals[i] \notin {Member, Normal}

\* clean_strings has returned F and N for a padded Female and a padded Normal
C5_Witness ==
    /\ pc = "optimize_types"
    /\ csv.cols["Gender"].vals[1] = <<" ">> \o Female \o <<"\t">>
    /\ csv.cols["Customer type"].vals[1] = <<"\t">> \o Normal
    /\ heap[df].cols["Gender"].vals[1] = LabelF
    /\ heap[df].cols["Customer type"].vals[1] = LabelN

\* the summary that generate_quality_summary returned
Report == quality_report[1]

SummaryReturned == pc = "save_output"

NumericOf(t) == {c \in Columns(t) : t.cols[c].dtype = "number"}

\* the rows of column c of the summarised table that hold a number
Present(c) == {i \in 1..csv.n : csv.cols[c].vals[i] # NaN}

ValueAt(c, i) == csv.cols[c].vals[i][1]

\* q is num/den rounded to the nearest whole number
IsNearest(q, num, den) == 2 * Abs(den * q - num) <= den

\* the counts the summary reports for the numeric column c, the number of
\* distinct values apart
CountsOf(c) ==
    /\ Report[c].TotalRows = csv.n
    /\ Report[c].NonNullCount = Cardinality(Present(c))
    /\ Report[c].ZeroValues = Cardinality({i \in Present(c) : ValueAt(c, i) = 0})
    /\ Report[c].Negatives =
          <<Cardinality({i \in Present(c) : ValueAt(c, i) < 0})>>
    /\ csv.n > 0 =>
          /\ Report[c].MissingPct # NaN
          /\ IsNearest(Report[c].MissingPct[1],
                       10000 * (csv.n - Cardinality(Present(c))), csv.n)

\* min and max of the numeric column c over its non-null values
ExtremesOf(c) ==
    IF Present(c) = {} THEN Report[c].min = NaN /\ Report[c].max = NaN
    ELSE /\ \E i \in Present(c) : Report[c].min = <<ValueAt(c, i)>>
         /\ \A i \in Present(c) : Report[c].min[1] <= ValueAt(c, i)
         /\ \E i \in Present(c) : Report[c].max = <<ValueAt(c, i)>>
         /\ \A i \in Present(c) : Report[c].max[1] >= ValueAt(c, i)

\* the mean of the numeric column c over its non-null values, rounded to two
\* decimals (a whole number of hundredths)
RoundedMeanOf(c) ==
    IF Present(c) = {} THEN Report[c].mean = NaN
    ELSE /\ Report[c].mean # NaN
         /\ Report[c].mean[1].den = 1
         /\ IsNearest(Report[c].mean[1].num,
                      SumOver(csv.cols[c], Present(c)),
                      Cardinality(Present(c)))

BlankFor(c) ==
    /\ Report[c].Negatives = NaN
    /\ Report[c].min = NaN
    /\ Report[c].mean = NaN
    /\ Report[c].max = NaN

\* the single numeric column [0, 0, 5, -3, null]
ExampleTable == RatingTable(<<<<0>>, <<0>>, <<500>>, <<-300>>, NaN>>, {"Rating"})

\* what the summary says of the example, but for the distinct values:
\* non-null count 4, missing 20.00 %, 2 zeros, 1 negative, min -3, mean 0.5,
\* max 5
ExampleRow(r) ==
    /\ r.TotalRows = 5
    /\ r.NonNullCount = 4
    /\ r.MissingPct = <<2000>>
    /\ r.ZeroValues = 2
    /\ r.Negatives = <<1>>
    /\ r.min = <<-300>>
    /\ r.mean = Fraction(50, 1)
    /\ r.max = <<500>>

\* C8 as stated, for the calls that return: one row per column; for a numeric
\* column the counts, min and max over the non-null values; blanks for the
\* other columns; and for [0, 0, 5, -3, null] the row of the example, with
\* 4 distinct values.
C8_Original ==
    SummaryReturned =>
        /\ DOMAIN Report = Columns(csv)
        /\ \A c \in NumericOf(csv) : CountsOf(c) /\ ExtremesOf(c)
        /\ \A c \in Columns(csv) \ NumericOf(csv) : BlankFor(c)
        /\ csv = ExampleTable =>
              ExampleRow(Report["Rating"]) /\ Report["Rating"].UniqueValues = 4

\* C8 amended: on a table of numeric, text and categorical columns,
\* generate_quality_summary returns iff the table has a numeric column (it
\* raises otherwise) and then returns one row per column; for a numeric
\* column it reports the non-null count, missing % = (1 - non-null/total) x
\* 100 rounded to 2 decimals, the number of distinct non-null values, the
\* zeros, the negatives, and min, max and the mean rounded to 2 decimals over
\* the non-null values; for [0, 0, 5, -3, null] that is non-null count 4,
\* missing 20.00 %, 3 distinct values, 2 zeros, 1 negative, min -3, mean 0.5,
\* max 5. For the other columns negatives, min, mean and max are blank.
C8_Summary ==
    /\ pc = "except" <=> (pc # "generate_quality_summary" /\ NumericOf(csv) = {})
    /\ SummaryReturned =>
        /\ DOMAIN Report = Columns(csv)
        /\ \A c \in NumericOf(csv) :
              /\ CountsOf(c)
              /\ ExtremesOf(c)
              /\ RoundedMeanOf(c)
              /\ Report[c].UniqueValues =
                    Cardinality({ValueAt(c, i) : i \in Present(c)})
        /\ \A c \in Columns(csv) \ NumericOf(csv) : BlankFor(c)
        /\ csv = ExampleTable =>
              ExampleRow(Report["Rating"]) /\ Report["Rating"].UniqueValues = 3

\* the summary of the example table has been returned
C8_Witness ==
    /\ SummaryReturned
    /\ csv = ExampleTable
    /\ Report["Rating"].UniqueValues = 3
    /\ Report["Rating"].NonNullCount = 4

====
